---- MODULE Spec2Model ----
(***************************************************************************)
(* A model of tool-installer: the ToolInstaller class of src/runtool.py    *)
(* (and its older copy src/tool_installer.py).  The install store is the   *)
(* bin directory, the package directory and a few paths outside of both.   *)
(* Spec runs every public install operation as one action; SpecSteps runs  *)
(* two processes through the same operations one system call at a time;    *)
(* SpecBatch runs the driver that installs one tool after another;         *)
(* SpecSelect and SpecLocate apply the selector and the locator to every   *)
(* input of a bounded set; SpecProbe runs url_install of src/foo.py, the   *)
(* install that probes the file with --help.  Strings are TLA+ strings     *)
(* and the string functions of the code (basename, lower, endswith, regex  *)
(* search of an alternation of escaped literals) are computed on them.     *)
(***************************************************************************)
EXTENDS Integers, Sequences, FiniteSets, TLC

VARIABLES
    system,     \* platform.system() of the host, as reported (not lowercased)
    machine,    \* platform.machine() of the host, as reported
    bin,        \* bin_dir: entry name -> node (regular file or symbolic link)
    pkg,        \* package_dir: package name -> extracted tree (a listing)
    ext,        \* paths outside bin_dir and package_dir that links may name
    last,       \* the call that ran last: arguments, outcome, what it found
    prev,       \* the call before it, when the last call repeated that call
    calls,      \* how many calls have run
    download_links,  \* the candidate URLs the selector was last handed
    bin0,       \* bin_dir as it was before the first operation
    proc,       \* process -> the operation it runs, where it is in it, its locals
    tmp,        \* the temporary directories that exist
    batch       \* the driver: which tool it is at, which it has attempted

vars == <<system, machine, bin, pkg, ext, last, prev, calls, download_links,
          bin0, proc, tmp, batch>>

-----------------------------------------------------------------------------
(* Strings                                                                 *)

\* Python's None, where the code passes or returns it in place of a str.
None == "<None>"

\* `x or y` on Optional[str]: None and '' are both falsy.
Falsy(s) == s = None \/ s = ""

Or(a, b) == IF Falsy(a) THEN b ELSE a

StartsWith(s, p) == Len(p) <= Len(s) /\ SubSeq(s, 1, Len(p)) = p

EndsWith(s, p) == Len(p) <= Len(s) /\ SubSeq(s, Len(s) - Len(p) + 1, Len(s)) = p

\* `p in s`
Contains(s, p) ==
    \E i \in 1..(Len(s) - Len(p) + 1) : SubSeq(s, i, i + Len(p) - 1) = p

\* index of the last "/" of s, 0 when there is none
LastSlash(s) ==
    LET idx == {i \in 1..Len(s) : SubSeq(s, i, i) = "/"}
    IN  IF idx = {} THEN 0 ELSE CHOOSE i \in idx : \A j \in idx : j <= i

\* os.path.basename
Basename(s) == SubSeq(s, LastSlash(s) + 1, Len(s))

\* os.path.join of a directory and a relative name
Join(d, n) == d \o "/" \o n

LowerChar(c) ==
    CASE c = "A" -> "a" [] c = "B" -> "b" [] c = "C" -> "c" [] c = "D" -> "d"
      [] c = "E" -> "e" [] c = "F" -> "f" [] c = "G" -> "g" [] c = "H" -> "h"
      [] c = "I" -> "i" [] c = "J" -> "j" [] c = "K" -> "k" [] c = "L" -> "l"
      [] c = "M" -> "m" [] c = "N" -> "n" [] c = "O" -> "o" [] c = "P" -> "p"
      [] c = "Q" -> "q" [] c = "R" -> "r" [] c = "S" -> "s" [] c = "T" -> "t"
      [] c = "U" -> "u" [] c = "V" -> "v" [] c = "W" -> "w" [] c = "X" -> "x"
      [] c = "Y" -> "y" [] c = "Z" -> "z" [] OTHER -> c

RECURSIVE Lower(_)
\* str.lower
Lower(s) == IF s = "" THEN "" ELSE LowerChar(SubSeq(s, 1, 1)) \o Lower(SubSeq(s, 2, Len(s)))

-----------------------------------------------------------------------------
(* AssetFilter: __system_ignore_pattern__                                   *)

\* the literal set the filter starts from (runtool.py)
ignore_patterns ==
    { ".txt", "license", ".md", ".sha256", ".sha256sum", "checksums",
      "sha256sums", ".asc", ".sig", "src",
      ".deb", ".rpm",
      "darwin", "macos", "linux", "windows", "freebsd", "netbsd", "openbsd",
      "x86_64", "32-bit", "amd64", "x86", "i386", "386",
      "armv6hf", "aarch64", "arm64", "armhf", "armv5", "armv5l", "armv6",
      "armv6l", "armv7", "armv7l",
      "mips", "mips64", "mips64le", "mipsle", "ppc64", "ppc64le", "s390x",
      "i686", "powerpc", "i486",
      ".exe" }

\* the tags taken out of the block-set for the host (runtool.py)
valid_tags(sys, mach) ==
    (CASE Lower(sys) = "darwin"  -> {"darwin", "apple", "macos"}
       [] Lower(sys) = "linux"   -> {"linux", ".deb", ".rpm"}
       [] Lower(sys) = "windows" -> {"windows", ".exe"}
       [] OTHER -> {})
    \cup
    (CASE Lower(mach) = "x86_64" -> {"x86_64", "amd64", "x86"}
       [] Lower(mach) = "armv7l" -> {"armv7", "armv6"}
       [] OTHER -> {})

\* the block-set the compiled pattern is the alternation of
SystemIgnorePattern(sys, mach) == ignore_patterns \ valid_tags(sys, mach)

\* the older copy: 'arm' is blocked too and only x86_64 has an architecture rule
SystemIgnorePatternOld(sys, mach) ==
    ((ignore_patterns \cup {"arm"})
        \ (CASE Lower(sys) = "darwin"  -> {"darwin", "apple", "macos"}
             [] Lower(sys) = "linux"   -> {"linux", ".deb", ".rpm"}
             [] Lower(sys) = "windows" -> {"windows", ".exe"}
             [] OTHER -> {}))
        \ (IF Lower(mach) = "x86_64" THEN {"x86_64", "amd64", "x86"} ELSE {})

\* ignore_pattern.search(filename) is not None: the pattern is an alternation
\* of re.escape'd literals, so it matches iff one of them is a substring
IgnoreSearch(pattern, filename) == \E p \in pattern : Contains(filename, p)

-----------------------------------------------------------------------------
(* AssetSelector: __best_url__                                              *)

RECURSIVE InsertByLen(_, _)
\* insert x into a list sorted by length descending, after the elements that
\* are at least as long (the sort is stable)
InsertByLen(x, s) ==
    IF s = <<>> THEN <<x>>
    ELSE IF Len(Head(s)) >= Len(x) THEN <<Head(s)>> \o InsertByLen(x, Tail(s))
    ELSE <<x>> \o s

RECURSIVE SortedByLen(_)
\* sorted(links, key=len, reverse=True)
SortedByLen(links) ==
    IF links = <<>> THEN <<>>
    ELSE LET n == Len(links)
         IN  InsertByLen(links[n], SortedByLen(SubSeq(links, 1, n - 1)))

\* a local variable: the value assigned once, then the code that reads it
With(value, Rest(_)) == Rest(value)

\* Accepts with the basename matched as spelled, not lowercased
AcceptsNoLower(pattern, download_link) == ~IgnoreSearch(pattern, Basename(download_link))

\* the loop body's test: the lowercased basename matches no blocked literal
Accepts(pattern, download_link) == ~IgnoreSearch(pattern, Lower(Basename(download_link)))

\* possible_downloads
PossibleDownloads(pattern, links) ==
    SelectSeq(SortedByLen(links), LAMBDA l : Accepts(pattern, l))

\* BestUrlWith with the filter left out: the longest link wins
BestUrlWithNoFilter(pattern, links) ==
    IF links = <<>> THEN None ELSE Head(SortedByLen(links))

BestUrlWith(pattern, links) ==
    With(PossibleDownloads(pattern, links), LAMBDA possible_downloads :
        IF possible_downloads = <<>> THEN None ELSE Head(possible_downloads))

\* __best_url__ on this host
BestUrl(links) == BestUrlWith(SystemIgnorePattern(system, machine), links)

-----------------------------------------------------------------------------
(* The install store                                                       *)

\* ToolInstaller.bin_dir and ToolInstaller.package_dir
bin_dir == "/b"
package_dir == "/p"

NoNode == [k |-> "none", x |-> FALSE, d |-> "", to |-> ""]
FileNode(d, x) == [k |-> "f", x |-> x, d |-> d, to |-> ""]
LinkNode(to) == [k |-> "l", x |-> FALSE, d |-> "", to |-> to]
DirNode == [k |-> "d", x |-> FALSE, d |-> "", to |-> ""]

\* one entry of an extracted tree: a path relative to the tree's root
F(path, x) == [path |-> path, k |-> "f", x |-> x]
D(path) == [path |-> path, k |-> "d", x |-> FALSE]

\* the store as one value, so that an operation is a function of it
Store == [bin |-> bin, pkg |-> pkg, ext |-> ext]

\* the entry of package pn whose full path is `path`, 0 when there is none
EntryAt(S, pn, path) ==
    LET idx == {i \in 1..Len(S.pkg[pn]) :
                    Join(Join(package_dir, pn), S.pkg[pn][i].path) = path}
    IN  IF idx = {} THEN 0 ELSE CHOOSE i \in idx : TRUE

\* os.lstat: what is at `path`, a link not followed
LStat(S, path) ==
    IF \E n \in DOMAIN S.bin : Join(bin_dir, n) = path
    THEN S.bin[CHOOSE n \in DOMAIN S.bin : Join(bin_dir, n) = path]
    ELSE IF path \in DOMAIN S.ext THEN S.ext[path]
    ELSE IF path = bin_dir \/ path = package_dir THEN DirNode
    ELSE IF \E pn \in DOMAIN S.pkg : Join(package_dir, pn) = path THEN DirNode
    ELSE IF \E pn \in DOMAIN S.pkg : EntryAt(S, pn, path) # 0
    THEN LET pn == CHOOSE q \in DOMAIN S.pkg : EntryAt(S, q, path) # 0
             e == S.pkg[pn][EntryAt(S, pn, path)]
         IN  IF e.k = "f" THEN FileNode("", e.x) ELSE DirNode
    ELSE NoNode

\* os.path.realpath: links of the store name their target directly
RealPath(S, path) == With(LStat(S, path), LAMBDA st : IF st.k = "l" THEN st.to ELSE path)

\* os.stat: links followed
Stat(S, path) == LStat(S, RealPath(S, path))

Exists(S, path) == Stat(S, path).k # "none"
IsFile(S, path) == Stat(S, path).k = "f"
IsDir(S, path) == Stat(S, path).k = "d"
IsLink(S, path) == LStat(S, path).k = "l"
LExists(S, path) == LStat(S, path).k # "none"

\* the file at `path` (a link followed) has the executable bit
IsExecutable(S, path) == With(Stat(S, path), LAMBDA st : st.k = "f" /\ st.x)

\* a chmod that leaves the mode as it was
ChmodNothing(S, filename) == S

\* os.chmod(filename, st_mode | S_IEXEC) on a path that exists
Chmod(S, filename) ==
    With(RealPath(S, filename), LAMBDA real :
        IF LStat(S, real).k # "f" THEN S
        ELSE IF \E n \in DOMAIN S.bin : Join(bin_dir, n) = real
        THEN LET n == CHOOSE m \in DOMAIN S.bin : Join(bin_dir, m) = real
             IN  [S EXCEPT !.bin[n].x = TRUE]
        ELSE IF real \in DOMAIN S.ext THEN [S EXCEPT !.ext[real].x = TRUE]
        ELSE LET pn == CHOOSE q \in DOMAIN S.pkg : EntryAt(S, q, real) # 0
             IN  [S EXCEPT !.pkg[pn][EntryAt(S, pn, real)].x = TRUE])

\* __make_executable__: chmod of what the name resolves to
MakeExecutable(S, filename) == Chmod(S, filename)

\* f with x mapped to v, x in its domain or not
Put(f, x, v) == [y \in DOMAIN f \cup {x} |-> IF y = x THEN v ELSE f[y]]

\* f without x
Drop(f, x) == [y \in DOMAIN f \ {x} |-> f[y]]

\* __files_in_dir__: glob(directory/**/*) keeping the plain files, in the
\* directory's listing order; an absent directory lists nothing
FilesInDir(S, directory) ==
    IF \E pn \in DOMAIN S.pkg : Join(package_dir, pn) = directory
    THEN LET pn == CHOOSE q \in DOMAIN S.pkg : Join(package_dir, q) = directory
             fs == SelectSeq(S.pkg[pn], LAMBDA e : e.k = "f")
         IN  [i \in 1..Len(fs) |-> Join(directory, fs[i].path)]
    ELSE <<>>

\* the condition of the fallback generator: the bound method
\* os.path.basename(file).startswith itself, which is always truthy
FallbackCondition(file) == TRUE

\* __executable_from_dir__
ExecutableFromDir(S, directory, executable_name) ==
    With(FilesInDir(S, directory), LAMBDA files :
        LET exact == SelectSeq(files, LAMBDA f : Basename(f) = executable_name)
            other == SelectSeq(files, FallbackCondition)
        IN  IF exact # <<>> /\ ~Falsy(Head(exact)) THEN Head(exact)
            ELSE IF other # <<>> THEN Head(other)
            ELSE None)

-----------------------------------------------------------------------------
(* Fetcher and ArchiveExtractor                                             *)

\* what the network answers to one request for a download
FetchFail == [k |-> "fail", d |-> "", tree |-> <<>>]
Blob(d) == [k |-> "blob", d |-> d, tree |-> <<>>]
Archive(fmt, tree) == [k |-> fmt, d |-> "", tree |-> tree]

\* the outcome of an operation: the store it leaves, the value it returns
\* (None when it raises), the error it raises ("" when it returns) and the
\* URLs it requested, in order
Out(S, ret, err, net) == [S |-> S, ret |-> ret, err |-> err, net |-> net]

\* __download__: "" when the body is written to tempdir/basename(url), else
\* the error raised; no body can be written to a name that is empty
Download(url, resp) ==
    IF resp.k = "fail" THEN "FetchError"
    ELSE IF Basename(url) = "" THEN "IsADirectoryError"
    ELSE ""

\* __unpackager__: the opener chosen from the file's name
Unpackager(filename) == IF EndsWith(filename, ".zip") THEN "zip" ELSE "tar"

\* shutil.move(download_file, target_dir) of a plain file onto a path that
\* os.path.exists denies: nothing there, or a link whose target is missing.
\* os.rename replaces such a link; across filesystems copy2 writes through it.
MoveFile(S, data, rename, xdev) ==
    LET target_dir == Join(bin_dir, rename)
    IN  IF xdev /\ IsLink(S, target_dir)
        THEN With(RealPath(S, target_dir), LAMBDA real :
                 IF real \in DOMAIN S.ext
                 THEN Out([S EXCEPT !.ext[real] = FileNode(data, FALSE)], None, "", <<>>)
                 ELSE Out(S, None, "FileNotFoundError", <<>>))
        ELSE Out([S EXCEPT !.bin = Put(S.bin, rename, FileNode(data, FALSE))], None, "", <<>>)

\* ExecutableFromUrl that opens the target itself for the download, with no
\* temporary file: a failed fetch leaves what was opened
ExecutableFromUrlInPlace(S, url, rename0, resp, xdev) ==
    LET rename == Or(rename0, Basename(url))
        target_dir == Join(bin_dir, rename)
        opened == [S EXCEPT !.bin = Put(S.bin, rename, FileNode("", FALSE))]
    IN  IF ~Exists(S, target_dir)
        THEN IF Download(url, resp) # ""
             THEN Out(opened, None, Download(url, resp), <<url>>)
             ELSE Out(MakeExecutable([S EXCEPT !.bin = Put(S.bin, rename, FileNode(resp.d, FALSE))],
                                     target_dir), target_dir, "", <<url>>)
        ELSE Out(MakeExecutable(S, target_dir), target_dir, "", <<>>)

\* ExecutableFromUrl without its existence test: every call downloads
ExecutableFromUrlRefetch(S, url, rename0, resp, xdev) ==
    LET rename == Or(rename0, Basename(url))
        target_dir == Join(bin_dir, rename)
    IN  IF Download(url, resp) # ""
        THEN Out(S, None, Download(url, resp), <<url>>)
        ELSE With(MoveFile(S, resp.d, rename, xdev), LAMBDA m :
                 IF m.err # "" THEN Out(S, None, m.err, <<url>>)
                 ELSE Out(MakeExecutable(m.S, target_dir), target_dir, "", <<url>>))

\* executable_from_url
ExecutableFromUrl(S, url, rename0, resp, xdev) ==
    LET rename == Or(rename0, Basename(url))
        target_dir == Join(bin_dir, rename)
    IN  IF ~Exists(S, target_dir)
        THEN IF Download(url, resp) # ""
             THEN Out(S, None, Download(url, resp), <<url>>)
             ELSE With(MoveFile(S, resp.d, rename, xdev), LAMBDA m :
                      IF m.err # "" THEN Out(S, None, m.err, <<url>>)
                      ELSE Out(MakeExecutable(m.S, target_dir), target_dir, "", <<url>>))
        ELSE Out(MakeExecutable(S, target_dir), target_dir, "", <<>>)

\* the entries of a tree that sit directly under its root
TopLevel(tree) == SelectSeq(tree, LAMBDA e : ~Contains(e.path, "/"))
Nested(tree) == SelectSeq(tree, LAMBDA e : Contains(e.path, "/"))

\* the extracted tree as it lists once moved under an existing directory
Under(dir, tree) == [i \in 1..Len(tree) |-> [tree[i] EXCEPT !.path = Join(dir, tree[i].path)]]

\* shutil.move(temp_extract_path, package_path): a rename when nothing is at
\* package_path; a move INTO package_path, as package_path/temp_package, when
\* it is a directory, which fails when that name is taken there.  `front` is
\* where the new directory comes in the listing order of package_path.
MoveTree(S, tree, package_name, front) ==
    LET package_path == Join(package_dir, package_name)
        real_dst == Join(package_path, "temp_package")
        old == IF package_name \in DOMAIN S.pkg THEN S.pkg[package_name] ELSE <<>>
        merged == IF front
                  THEN TopLevel(old) \o <<D("temp_package")>> \o Under("temp_package", tree) \o Nested(old)
                  ELSE TopLevel(old) \o <<D("temp_package")>> \o Nested(old) \o Under("temp_package", tree)
    IN  IF tree = <<>> THEN Out(S, None, "FileNotFoundError", <<>>)
        ELSE IF ~IsDir(S, package_path)
        THEN Out([S EXCEPT !.pkg = Put(S.pkg, package_name, tree)], None, "", <<>>)
        ELSE IF Exists(S, real_dst) THEN Out(S, None, "shutil.Error", <<>>)
        ELSE Out([S EXCEPT !.pkg = Put(S.pkg, package_name, merged)], None, "", <<>>)

\* PlaceLink that replaces whatever file the name resolves to, a regular
\* file included
PlaceLinkClobber(S0, result, rename0, executable_name, net) ==
    LET rename == Or(rename0, executable_name)
        symlink_path == Join(bin_dir, rename)
    IN  With(MakeExecutable(S0, result), LAMBDA S :
            IF IsFile(S, symlink_path) \/ ~LExists(S, symlink_path)
            THEN Out([S EXCEPT !.bin = Put(S.bin, rename, LinkNode(result))], symlink_path, "", net)
            ELSE Out(S, None, "FileExistsError", net))

\* lines 115-129 of executable_from_package: chmod, then the symbolic link
PlaceLink(S0, result, rename0, executable_name, net) ==
    LET executable == result
        rename == Or(rename0, executable_name)
        symlink_path == Join(bin_dir, rename)
        linked(T) == [T EXCEPT !.bin = Put(T.bin, rename, LinkNode(executable))]
    IN  With(MakeExecutable(S0, result), LAMBDA S :
            IF IsFile(S, symlink_path)
            THEN IF ~IsLink(S, symlink_path) THEN Out(S, executable, "", net)
                 ELSE IF RealPath(S, symlink_path) = RealPath(S, executable)
                 THEN Out(S, symlink_path, "", net)
                 ELSE Out(linked([S EXCEPT !.bin = Drop(S.bin, rename)]), symlink_path, "", net)
            ELSE IF LExists(S, symlink_path) THEN Out(S, None, "FileExistsError", net)
            ELSE Out(linked(S), symlink_path, "", net))

\* FetchPackage that fetches and extracts whatever the package path holds
FetchPackageAlways(S, package_url, executable_name, package_name, resp, front) ==
    IF Download(package_url, resp) # ""
    THEN Out(S, None, Download(package_url, resp), <<package_url>>)
    ELSE IF resp.k # Unpackager(Basename(package_url))
    THEN Out(S, None, "UnsupportedArchive", <<package_url>>)
    ELSE With(MoveTree(S, resp.tree, package_name, front), LAMBDA m :
             Out(m.S, None, m.err, <<package_url>>))

\* lines 101-108 of executable_from_package: fetch and extract when the
\* package path is missing or holds no executable
FetchPackage(S, package_url, executable_name, package_name, resp, front) ==
    LET package_path == Join(package_dir, package_name)
    IN  IF ~Exists(S, package_path) \/ ExecutableFromDir(S, package_path, executable_name) = None
        THEN IF Download(package_url, resp) # ""
             THEN Out(S, None, Download(package_url, resp), <<package_url>>)
             ELSE IF resp.k # Unpackager(Basename(package_url))
             THEN Out(S, None, "UnsupportedArchive", <<package_url>>)
             ELSE With(MoveTree(S, resp.tree, package_name, front), LAMBDA m :
                      Out(m.S, None, m.err, <<package_url>>))
        ELSE Out(S, None, "", <<>>)

\* executable_from_package
ExecutableFromPackage(S, package_url, executable_name, package_name0, rename0, resp, front) ==
    LET package_name == Or(package_name0, Basename(package_url))
        package_path == Join(package_dir, package_name)
    IN  With(FetchPackage(S, package_url, executable_name, package_name, resp, front), LAMBDA f :
            IF f.err # "" THEN f
            ELSE With(ExecutableFromDir(f.S, package_path, executable_name), LAMBDA result :
                     IF Falsy(result) THEN Out(f.S, None, "ExecutableNotFound", f.net)
                     ELSE PlaceLink(f.S, result, rename0, executable_name, f.net)))

\* git_install_script
GitInstallScript(S, user, project, path0, tag, rename0, resp, xdev) ==
    LET path == Or(path0, project)
        url == "https://raw.githubusercontent.com/" \o user \o "/" \o project
                   \o "/" \o tag \o "/" \o path
    IN  ExecutableFromUrl(S, url, rename0, resp, xdev)

\* what the network answers to the request for the release page: the hrefs
\* found in the html, or a failure
PageFail == [k |-> "fail", hrefs |-> <<>>]
Page(hrefs) == [k |-> "html", hrefs |-> hrefs]

\* re.findall(f'/{user}/{project}/releases/download/[^"]+', html), each
\* prefixed with https://github.com
DownloadLinks(user, project, page) ==
    LET prefix == "/" \o user \o "/" \o project \o "/releases/download/"
        found == SelectSeq(page.hrefs, LAMBDA h : StartsWith(h, prefix) /\ Len(h) > Len(prefix))
    IN  [i \in 1..Len(found) |-> "https://github.com" \o found[i]]

\* the test as url_install of foo.py makes it, without .tbz
IsArchiveNameNoTbz(basename) ==
    \/ EndsWith(basename, ".zip")
    \/ Contains(basename, ".tar")
    \/ EndsWith(basename, ".tgz")

\* the test that sends an asset to package mode
IsArchiveName(basename) ==
    \/ EndsWith(basename, ".zip")
    \/ Contains(basename, ".tar")
    \/ EndsWith(basename, ".tgz")
    \/ EndsWith(basename, ".tbz")

\* EarlyReturn without the test of the bin entry
EarlyReturnNoBin(S, bin_install_path, possible) ==
    IF possible # None THEN possible ELSE None

\* the two early returns of git_install_release: the bin entry exists, or
\* the package directory holds an executable
EarlyReturn(S, bin_install_path, possible) ==
    IF Exists(S, bin_install_path) THEN bin_install_path
    ELSE IF possible # None THEN possible
    ELSE None

\* git_install_release
GitInstallRelease(S, user, project, tag, binary0, rename0, page, resp, xdev, front) ==
    LET binary == Or(binary0, project)
        rename == Or(rename0, binary)
        bin_install_path == Join(bin_dir, rename)
        package_name == user \o "_" \o project
        possible == ExecutableFromDir(S, Join(package_dir, package_name), binary)
        url == "https://github.com/" \o user \o "/" \o project \o "/releases/"
                   \o (IF tag = "latest" THEN "latest" ELSE "tag/" \o tag)
        install(download_url) ==
            IF IsArchiveName(Basename(download_url))
            THEN ExecutableFromPackage(S, download_url, binary, package_name, rename, resp, front)
            ELSE ExecutableFromUrl(S, download_url, rename, resp, xdev)
    IN  With(EarlyReturn(S, bin_install_path, possible), LAMBDA early :
            IF early # None THEN Out(S, early, "", <<>>)
            ELSE IF page.k = "fail" THEN Out(S, None, "FetchError", <<url>>)
            ELSE With(BestUrl(DownloadLinks(user, project, page)), LAMBDA download_url :
                     IF Falsy(download_url) THEN Out(S, None, "NoMatchingAsset", <<url>>)
                     ELSE With(install(download_url), LAMBDA o :
                              Out(o.S, o.ret, o.err, <<url>> \o o.net))))

-----------------------------------------------------------------------------
(* The inputs the operations are driven with                                *)

\* hosts, as platform.system() and platform.machine() report them
Platforms == { <<"Linux", "x86_64">>, <<"Darwin", "arm64">> }

\* paths outside the store that a link left in bin_dir may name
ExtInit == [p \in {"/o/gone", "/o/dir", "/o/other"} |->
               CASE p = "/o/gone" -> NoNode
                 [] p = "/o/dir" -> DirNode
                 [] OTHER -> FileNode("other", FALSE)]

\* bin_dir before the first operation: empty, or holding what a user left
\* under the tool's name: a plain file, or a link to a missing path, to a
\* directory, or to another file
BinInit ==
    { <<>> }
    \cup { [n \in {"widget"} |-> e] :
             e \in { FileNode("manual", FALSE), LinkNode("/o/gone"),
                     LinkNode("/o/dir"), LinkNode("/o/other") } }

\* the trees archives unpack to, each in a listing order glob can produce
Trees ==
    { << F("widget", FALSE) >>,
      << F("README", FALSE), D("bin"), F("bin/widget", TRUE), F("bin/gadget", FALSE) >>,
      << D("docs") >>,
      << >> }

\* answers to a download request
Responses ==
    { FetchFail, Blob("v1") }
    \cup { Archive("tar", t) : t \in Trees }
    \cup { Archive("zip", << F("widget", FALSE) >>) }

dl == "/acme/widget/releases/download/v1/"

\* answers to a release-page request
Pages ==
    { PageFail,
      Page(<< >>),
      Page(<< dl \o "widget.sha256", "/acme/other/releases/download/v1/other" >>),
      Page(<< dl \o "widget", dl \o "widget.sha256" >>),
      Page(<< dl \o "widget_linux_amd64.tar.gz", dl \o "widget_darwin_amd64.tar.gz",
              dl \o "widget-Darwin-arm64.zip" >>) }

\* Optional[str] arguments
Opt(S) == S \cup {None}

\* a store with every executable bit cleared: what is where, modes aside
Shape(S) ==
    [bin |-> [n \in DOMAIN S.bin |-> [S.bin[n] EXCEPT !.x = FALSE]],
     pkg |-> [q \in DOMAIN S.pkg |-> [i \in 1..Len(S.pkg[q]) |-> [S.pkg[q][i] EXCEPT !.x = FALSE]]],
     ext |-> [p \in DOMAIN S.ext |-> [S.ext[p] EXCEPT !.x = FALSE]]]

\* the record of a call: its arguments and outcome, and of the store before
\* it what the name it installs under in bin_dir held (was, a link not
\* followed), whether os.path.exists held of that name (existed), whether
\* its package directory held an executable for it (cached), whether the
\* release page was read (listed), and whether the call left the store as
\* it was (same; sameShape: modes aside)
NoLast == [op |-> "none", args |-> <<>>, name |-> "", ret |-> None, err |-> "", net |-> <<>>,
           was |-> NoNode, existed |-> FALSE, cached |-> FALSE, listed |-> FALSE,
           same |-> TRUE, sameShape |-> TRUE]

Record(op, args, name, o, found) ==
    [op |-> op, args |-> args, name |-> name, ret |-> o.ret, err |-> o.err, net |-> o.net,
     was |-> LStat(Store, Join(bin_dir, name)),
     existed |-> Exists(Store, Join(bin_dir, name)),
     cached |-> found.cached,
     listed |-> found.listed,
     same |-> (o.S = Store),
     sameShape |-> (Shape(o.S) = Shape(Store))]

\* what a call found that its outcome does not tell
Found(cached, listed, seen) == [cached |-> cached, listed |-> listed, seen |-> seen]
NothingFound == Found(FALSE, FALSE, <<>>)

\* the package directory of package_name holds an executable for the name
Cached(S, package_name, executable_name) ==
    ExecutableFromDir(S, Join(package_dir, package_name), executable_name) # None

\* the call before the last one, kept when the last call repeated it: same
\* operation, same arguments
Repeats(op, args) == last.op = op /\ last.args = args

\* calls made in one run of the model
MaxCalls == 2

Done(op, args, name, o, found) ==
    /\ calls < MaxCalls
    /\ download_links' = found.seen
    /\ calls' = calls + 1
    /\ bin' = o.S.bin
    /\ pkg' = o.S.pkg
    /\ ext' = o.S.ext
    /\ prev' = IF Repeats(op, args) THEN last ELSE NoLast
    /\ last' = Record(op, args, name, o, found)
    /\ UNCHANGED <<system, machine, bin0, proc, tmp, batch>>

\* the driver before it starts: the tool it is at, the tools it has called,
\* and how it ended ("" while it runs)
NoBatch == [at |-> 0, attempted |-> <<>>, ended |-> ""]

\* the choices that can make a difference in the store as it is: a copy
\* across filesystems differs from a rename only onto a link, and the place
\* of a new directory in a listing only where there is a listing
XDev == IF \E n \in DOMAIN bin : bin[n].k = "l" THEN BOOLEAN ELSE {FALSE}
Fronts == IF pkg # <<>> THEN BOOLEAN ELSE {FALSE}

-----------------------------------------------------------------------------
(* The specification                                                        *)

Init ==
    /\ \E h \in Platforms : system = h[1] /\ machine = h[2]
    /\ bin \in BinInit
    /\ pkg = <<>>
    /\ ext = ExtInit
    /\ last = NoLast
    /\ prev = NoLast
    /\ calls = 0
    /\ download_links = <<>>
    /\ bin0 = bin
    /\ proc = <<>>
    /\ tmp = {}
    /\ batch = NoBatch

CallExecutableFromUrl ==
    \E url \in {"https://h.io/dl/widget"}, rename \in Opt({"gadget"}),
       resp \in Responses, xdev \in XDev :
        Done("executable_from_url", <<url, rename>>, Or(rename, Basename(url)),
             ExecutableFromUrl(Store, url, rename, resp, xdev), NothingFound)

\* (package_url, executable_name, package_name, rename) of the direct calls:
\* the package named after the URL, and a zip under the name a release
\* install of acme/widget uses
PackageCalls ==
    { <<"https://h.io/dl/acme_widget", "widget", None, None>>,
      <<"https://h.io/dl/widgets.zip", "widget", "acme_widget", None>> }

CallExecutableFromPackage ==
    \E a \in PackageCalls, resp \in Responses, front \in Fronts :
        Done("executable_from_package", a, Or(a[4], a[2]),
             ExecutableFromPackage(Store, a[1], a[2], a[3], a[4], resp, front),
             Found(Cached(Store, Or(a[3], Basename(a[1])), a[2]), FALSE, <<>>))

CallGitInstallScript ==
    \E user \in {"acme"}, project \in {"widget"}, path \in Opt({"bin/gadget"}),
       tag \in {"master"}, rename \in Opt({}), resp \in Responses, xdev \in XDev :
        Done("git_install_script", <<user, project, path, tag, rename>>,
             Or(rename, Basename(Or(path, project))),
             GitInstallScript(Store, user, project, path, tag, rename, resp, xdev), NothingFound)

\* (user, project, tag, binary, rename) of the release installs: the project's
\* own binary from the latest release, and a second binary of the same
\* project from a named tag
ReleaseCalls ==
    { <<"acme", "widget", "latest", None, None>>,
      <<"acme", "widget", "v1", "gadget", None>> }

CallGitInstallRelease ==
    \E a \in ReleaseCalls, page \in Pages, resp \in Responses, xdev \in XDev, front \in Fronts :
        \E o \in {GitInstallRelease(Store, a[1], a[2], a[3], a[4], a[5], page, resp, xdev, front)} :
        LET listed == o.net # <<>> /\ page.k = "html"
        IN  Done("git_install_release", a, Or(a[5], Or(a[4], a[2])), o,
                 Found(Cached(Store, a[1] \o "_" \o a[2], Or(a[4], a[2])), listed,
                       IF listed THEN DownloadLinks(a[1], a[2], page) ELSE <<>>))

Next ==
    \/ CallExecutableFromUrl
    \/ CallExecutableFromPackage
    \/ CallGitInstallScript
    \/ CallGitInstallRelease

Spec == Init /\ [][Next]_vars

-----------------------------------------------------------------------------
(* The selector on its own: every host, every candidate list                *)

\* hosts as platform.system() and platform.machine() report them
Hosts ==
    { <<"Linux", "x86_64">>, <<"Linux", "aarch64">>, <<"Linux", "armv7l">>,
      <<"Darwin", "x86_64">>, <<"Darwin", "arm64">>,
      <<"Windows", "AMD64">>, <<"Windows", "ARM64">>,
      <<"FreeBSD", "amd64">> }

rel == "https://github.com/acme/proj/releases/download/"

Candidates ==
    { rel \o "v1/proj-linux-amd64.tar.gz",
      rel \o "v1/proj-darwin-amd64.tar.gz",
      rel \o "v1/proj-windows-amd64.exe",
      rel \o "v1/proj.sha256",
      rel \o "v1/Proj-Darwin-ARM64.zip",
      rel \o "v1/tool-v2-extended",
      rel \o "v1.0.0-20240101/tool" }

\* candidates in one list
MaxLinks == 4

\* the lists of at most MaxLinks distinct candidates, in every order
Listings ==
    UNION { { l \in [1..n -> Candidates] : \A i, j \in 1..n : l[i] = l[j] => i = j } :
            n \in 0..MaxLinks }

InitSelect ==
    /\ \E h \in Hosts : system = h[1] /\ machine = h[2]
    /\ download_links \in Listings
    /\ bin = <<>>
    /\ pkg = <<>>
    /\ ext = ExtInit
    /\ last = NoLast
    /\ prev = NoLast
    /\ calls = 0
    /\ bin0 = <<>>
    /\ proc = <<>>
    /\ tmp = {}
    /\ batch = NoBatch

Selected(op, ret) ==
    /\ last.op = "none"
    /\ last' = [NoLast EXCEPT !.op = op, !.args = <<download_links>>, !.ret = ret]
    /\ UNCHANGED <<system, machine, bin, pkg, ext, prev, calls, download_links,
                   bin0, proc, tmp, batch>>

\* __best_url__ of runtool.py
CallBestUrl == Selected("__best_url__", BestUrl(download_links))

\* __best_url__ of tool_installer.py: the same loop over the older block-set
CallBestUrlOld ==
    Selected("__best_url__ (tool_installer.py)",
             BestUrlWith(SystemIgnorePatternOld(system, machine), download_links))

NextSelect == CallBestUrl \/ CallBestUrlOld

SpecSelect == InitSelect /\ [][NextSelect]_vars

-----------------------------------------------------------------------------
(* The locator on its own: every small tree, in every listing order         *)

\* what an extracted archive may hold: the tool, its completion scripts and
\* man page, a readme, a directory with the tool inside
LocateEntries ==
    { F("widget", FALSE), F("widget.bash", FALSE), F("_widget.zsh", FALSE),
      F("widget.fish", FALSE), F("widget.1", FALSE), F("README", FALSE),
      D("bin"), F("bin/widget", TRUE) }

\* entries in one tree
MaxEntries == 3

\* the listings glob can give of a tree of at most MaxEntries entries: the
\* entries in any order, a nested file only beside its directory
LocateTrees ==
    UNION { { t \in [1..n -> LocateEntries] :
                /\ \A i, j \in 1..n : t[i] = t[j] => i = j
                /\ \A i \in 1..n : Contains(t[i].path, "/")
                                      => \E j \in 1..n : t[j] = D("bin") } :
            n \in 0..MaxEntries }

InitLocate ==
    /\ \E h \in Platforms : system = h[1] /\ machine = h[2]
    /\ \E t \in LocateTrees : pkg = [n \in {"acme_widget"} |-> t]
    /\ bin = <<>>
    /\ ext = ExtInit
    /\ last = NoLast
    /\ prev = NoLast
    /\ calls = 0
    /\ download_links = <<>>
    /\ bin0 = <<>>
    /\ proc = <<>>
    /\ tmp = {}
    /\ batch = NoBatch

\* __executable_from_dir__ of a package directory, present or not
CallExecutableFromDir ==
    \E directory \in {Join(package_dir, "acme_widget"), Join(package_dir, "absent")},
       executable_name \in {"widget", "gadget"} :
        /\ last.op = "none"
        /\ last' = [NoLast EXCEPT !.op = "__executable_from_dir__",
                                  !.args = <<directory, executable_name>>,
                                  !.ret = ExecutableFromDir(Store, directory, executable_name)]
        /\ UNCHANGED <<system, machine, bin, pkg, ext, prev, calls, download_links,
                       bin0, proc, tmp, batch>>

NextLocate == CallExecutableFromDir

SpecLocate == InitLocate /\ [][NextLocate]_vars

-----------------------------------------------------------------------------
(* The operations one system call at a time                                 *)

\* the processes that may run an operation at the same time
Procs == {"a", "b"}

\* a process that runs no operation
Idle ==
    [op |-> "idle", args |-> <<>>, page |-> PageFail, resp |-> FetchFail, pc |-> "done",
     url |-> "", rename |-> "", executable_name |-> "", package_name |-> "",
     mode |-> "", opener |-> "", result |-> None, ret |-> None, err |-> "",
     net |-> <<>>, stages |-> <<>>, downloaded |-> FALSE, wrote |-> FALSE]

\* a call of an operation: the arguments bound, the answers the network will
\* give it, and the first line it runs
Begin(op, args, page, resp) ==
    CASE op = "executable_from_url" ->
            [Idle EXCEPT !.op = op, !.args = args, !.resp = resp, !.pc = "u_exists",
                         !.url = args[1], !.rename = Or(args[2], Basename(args[1])),
                         !.mode = "file"]
      [] op = "executable_from_package" ->
            [Idle EXCEPT !.op = op, !.args = args, !.resp = resp, !.pc = "p_cached",
                         !.url = args[1], !.executable_name = args[2],
                         !.package_name = Or(args[3], Basename(args[1])),
                         !.rename = Or(args[4], args[2]), !.mode = "package"]
      [] OTHER ->
            [Idle EXCEPT !.op = op, !.args = args, !.page = page, !.resp = resp,
                         !.pc = "r_bin",
                         !.executable_name = Or(args[4], args[2]),
                         !.rename = Or(args[5], Or(args[4], args[2])),
                         !.package_name = args[1] \o "_" \o args[2]]

\* the part of an operation a line belongs to
StageOf(pc) ==
    CASE pc \in {"r_bin", "r_possible", "u_exists", "p_cached"} -> "check"
      [] pc = "r_html" -> "select"
      [] pc \in {"d_tmp", "d_read"} -> "fetch"
      [] pc \in {"p_tmp", "p_extract"} -> "extract"
      [] pc \in {"p_move", "p_exit"} -> "persist"
      [] pc \in {"p_locate"} -> "locate"
      [] OTHER -> "place"

\* the parts an operation has been in, each noted when it is entered
Note(stages, stage) ==
    IF stages # <<>> /\ stages[Len(stages)] = stage THEN stages ELSE Append(stages, stage)

\* the process after the line it is at: on to another line, returned, raised
Did(q) == [q EXCEPT !.stages = Note(q.stages, StageOf(q.pc))]
Goto(q, pc) == [Did(q) EXCEPT !.pc = pc]
Return(q, ret) == [Did(q) EXCEPT !.pc = "done", !.ret = ret]
Raise(q, err) == [Did(q) EXCEPT !.pc = "done", !.err = err]

\* tempfile.TemporaryDirectory(): entered, left, and left by an exception
\* that passes through every with block of the process
TemporaryDirectory(t, p, what) == t \cup {<<p, what>>}
Cleanup(t, p, what) == t \ {<<p, what>>}
UnwindNothing(t, p) == t
Unwind(t, p) == {d \in t : d[1] # p}

\* one line of process p: the process, the store and the temporary
\* directories after it
Becomes(p, q, S, t) ==
    /\ proc' = [proc EXCEPT ![p] = [q EXCEPT !.wrote = @ \/ S # Store]]
    /\ bin' = S.bin
    /\ pkg' = S.pkg
    /\ ext' = S.ext
    /\ tmp' = t
    /\ UNCHANGED <<system, machine, last, prev, calls, download_links, bin0, batch>>

\* git_install_release, line 175
StepBinExists(p) ==
    /\ proc[p].pc = "r_bin"
    /\ LET q == proc[p]
           bin_install_path == Join(bin_dir, q.rename)
       IN  Becomes(p, IF Exists(Store, bin_install_path)
                      THEN Return(q, bin_install_path)
                      ELSE Goto(q, "r_possible"), Store, tmp)

\* git_install_release, lines 177-179
StepPossible(p) ==
    /\ proc[p].pc = "r_possible"
    /\ LET q == proc[p]
       IN  With(ExecutableFromDir(Store, Join(package_dir, q.package_name), q.executable_name),
                LAMBDA possible :
                    Becomes(p, IF possible # None THEN Return(q, possible)
                               ELSE Goto(q, "r_html"), Store, tmp))

\* git_install_release, lines 181-197: the page, the selection, the
\* delegation to one of the two modes
StepReleasePage(p) ==
    /\ proc[p].pc = "r_html"
    /\ LET user == proc[p].args[1]
           project == proc[p].args[2]
           tag == proc[p].args[3]
           url == "https://github.com/" \o user \o "/" \o project \o "/releases/"
                      \o (IF tag = "latest" THEN "latest" ELSE "tag/" \o tag)
           q == [proc[p] EXCEPT !.net = Append(@, url)]
       IN  IF q.page.k = "fail" THEN Becomes(p, Raise(q, "FetchError"), Store, tmp)
           ELSE With(BestUrl(DownloadLinks(user, project, q.page)), LAMBDA download_url :
                    IF Falsy(download_url)
                    THEN Becomes(p, Raise(q, "NoMatchingAsset"), Store, tmp)
                    ELSE IF IsArchiveName(Basename(download_url))
                    THEN Becomes(p, Goto([q EXCEPT !.url = download_url, !.mode = "package"],
                                         "p_cached"), Store, tmp)
                    ELSE Becomes(p, Goto([q EXCEPT !.url = download_url, !.mode = "file"],
                                         "u_exists"), Store, tmp))

\* executable_from_url, line 86
StepUrlExists(p) ==
    /\ proc[p].pc = "u_exists"
    /\ LET q == proc[p]
       IN  Becomes(p, IF ~Exists(Store, Join(bin_dir, q.rename))
                      THEN Goto(q, "d_tmp") ELSE Goto(q, "u_chmod"), Store, tmp)

\* __download__, line 71
StepDownloadTmp(p) ==
    /\ proc[p].pc = "d_tmp"
    /\ Becomes(p, Goto(proc[p], "d_read"), Store, TemporaryDirectory(tmp, p, "download"))

\* a download that writes the body under the name in bin_dir as it arrives
StepDownloadInPlace(p) ==
    /\ proc[p].pc = "d_read"
    /\ LET q == [proc[p] EXCEPT !.net = Append(@, proc[p].url)]
           S == [Store EXCEPT !.bin = Put(bin, q.rename, FileNode("partial", FALSE))]
       IN  IF Download(q.url, q.resp) # ""
           THEN Becomes(p, Raise(q, Download(q.url, q.resp)), S, Unwind(tmp, p))
           ELSE Becomes(p, Goto([q EXCEPT !.downloaded = TRUE],
                                IF q.mode = "file" THEN "u_move" ELSE "p_tmp"), S, tmp)

\* __download__, lines 72-76: the body read into the temporary file
StepDownloadRead(p) ==
    /\ proc[p].pc = "d_read"
    /\ LET q == [proc[p] EXCEPT !.net = Append(@, proc[p].url)]
       IN  IF Download(q.url, q.resp) # ""
           THEN Becomes(p, Raise(q, Download(q.url, q.resp)), Store, Unwind(tmp, p))
           ELSE Becomes(p, Goto([q EXCEPT !.downloaded = TRUE],
                                IF q.mode = "file" THEN "u_move" ELSE "p_tmp"), Store, tmp)

\* executable_from_url, line 89: a rename, the temporary directory being
\* on the filesystem of bin_dir
StepUrlMove(p) ==
    /\ proc[p].pc = "u_move"
    /\ LET q == proc[p]
       IN  With(MoveFile(Store, q.resp.d, q.rename, FALSE), LAMBDA m :
                IF m.err # "" THEN Becomes(p, Raise(q, m.err), Store, Unwind(tmp, p))
                ELSE Becomes(p, Goto(q, "u_exit"), m.S, tmp))

\* executable_from_url, the end of the with block of line 88
StepUrlExit(p) ==
    /\ proc[p].pc = "u_exit"
    /\ Becomes(p, Goto(proc[p], "u_chmod"), Store, Cleanup(tmp, p, "download"))

\* executable_from_url, line 90
StepUrlChmod(p) ==
    /\ proc[p].pc = "u_chmod"
    /\ LET q == proc[p]
           target_dir == Join(bin_dir, q.rename)
       IN  IF ~Exists(Store, target_dir)
           THEN Becomes(p, Raise(q, "FileNotFoundError"), Store, tmp)
           ELSE Becomes(p, Return(q, target_dir), MakeExecutable(Store, target_dir), tmp)

\* executable_from_package, line 101
StepPackageCached(p) ==
    /\ proc[p].pc = "p_cached"
    /\ LET q == proc[p]
           package_path == Join(package_dir, q.package_name)
       IN  Becomes(p, IF \/ ~Exists(Store, package_path)
                         \/ ExecutableFromDir(Store, package_path, q.executable_name) = None
                      THEN Goto(q, "d_tmp") ELSE Goto(q, "p_locate"), Store, tmp)

\* executable_from_package, line 103
StepExtractTmp(p) ==
    /\ proc[p].pc = "p_tmp"
    /\ Becomes(p, Goto(proc[p], "p_extract"), Store, TemporaryDirectory(tmp, p, "extract"))

\* executable_from_package, lines 104-106: the opener chosen by name, the
\* archive extracted into the temporary directory
StepExtract(p) ==
    /\ proc[p].pc = "p_extract"
    /\ LET q == [proc[p] EXCEPT !.opener = Unpackager(Basename(proc[p].url))]
       IN  IF q.resp.k # q.opener
           THEN Becomes(p, Raise(q, "UnsupportedArchive"), Store, Unwind(tmp, p))
           ELSE Becomes(p, Goto(q, "p_move"), Store, tmp)

\* executable_from_package, lines 107-108
StepPackageMove(p) ==
    /\ proc[p].pc = "p_move"
    /\ \E front \in Fronts :
        LET q == proc[p]
        IN  With(MoveTree(Store, q.resp.tree, q.package_name, front), LAMBDA m :
                 IF m.err # "" THEN Becomes(p, Raise(q, m.err), Store, Unwind(tmp, p))
                 ELSE Becomes(p, Goto(q, "p_exit"), m.S, tmp))

\* executable_from_package, the end of the with blocks of lines 102-103
StepPackageExit(p) ==
    /\ proc[p].pc = "p_exit"
    /\ Becomes(p, Goto(proc[p], "p_locate"), Store,
               Cleanup(Cleanup(tmp, p, "extract"), p, "download"))

\* executable_from_package, lines 110-113
StepLocate(p) ==
    /\ proc[p].pc = "p_locate"
    /\ LET q == proc[p]
       IN  With(ExecutableFromDir(Store, Join(package_dir, q.package_name), q.executable_name),
                LAMBDA result :
                    Becomes(p, IF Falsy(result) THEN Raise(q, "ExecutableNotFound")
                               ELSE Goto([q EXCEPT !.result = result], "p_chmod"), Store, tmp))

\* executable_from_package, line 115
StepPackageChmod(p) ==
    /\ proc[p].pc = "p_chmod"
    /\ Becomes(p, Goto(proc[p], "p_isfile"), MakeExecutable(Store, proc[p].result), tmp)

\* executable_from_package, lines 117-126: the tests of the link path
StepLinkTest(p) ==
    /\ proc[p].pc = "p_isfile"
    /\ LET q == proc[p]
           executable == q.result
           symlink_path == Join(bin_dir, q.rename)
       IN  Becomes(p, IF IsFile(Store, symlink_path)
                      THEN IF ~IsLink(Store, symlink_path) THEN Return(q, executable)
                           ELSE IF RealPath(Store, symlink_path) = RealPath(Store, executable)
                           THEN Return(q, symlink_path)
                           ELSE Goto(q, "p_remove")
                      ELSE Goto(q, "p_symlink"), Store, tmp)

\* executable_from_package, line 126
StepRemove(p) ==
    /\ proc[p].pc = "p_remove"
    /\ LET q == proc[p]
       IN  IF ~LExists(Store, Join(bin_dir, q.rename))
           THEN Becomes(p, Raise(q, "FileNotFoundError"), Store, tmp)
           ELSE Becomes(p, Goto(q, "p_symlink"), [Store EXCEPT !.bin = Drop(bin, q.rename)], tmp)

\* executable_from_package, lines 128-129
StepSymlink(p) ==
    /\ proc[p].pc = "p_symlink"
    /\ LET q == proc[p]
           symlink_path == Join(bin_dir, q.rename)
       IN  IF LExists(Store, symlink_path)
           THEN Becomes(p, Raise(q, "FileExistsError"), Store, tmp)
           ELSE Becomes(p, Return(q, symlink_path),
                        [Store EXCEPT !.bin = Put(bin, q.rename, LinkNode(q.result))], tmp)

\* the release page of a project with one asset
PageOf(project, asset) ==
    Page(<< "/acme/" \o project \o "/releases/download/v1/" \o asset >>)

\* names a release asset may have
AssetNames ==
    { "widget", "widget.zip", "widget.ZIP", "widget.tar.gz", "widget.tar", "widget.tgz",
      "widget.tbz", "widget.tbz2", "widget.gz" }

\* package_dir before the operation: empty, or what earlier installs of the
\* package left: the tool, an archive of directories alone, and a second
\* such archive moved into the first
PkgInit ==
    { <<>> }
    \cup { [n \in {"acme_widget"} |-> t] :
             t \in { << F("widget", TRUE) >>,
                     << D("docs") >>,
                     << D("docs"), D("temp_package"), D("temp_package/docs") >> } }

\* the calls one process makes: (operation, arguments, page)
SoloCalls ==
    { <<"executable_from_url", <<"https://h.io/dl/widget", None>>, PageFail>>,
      <<"executable_from_package", <<"https://h.io/dl/widgets.zip", "widget", "acme_widget", None>>,
        PageFail>>,
      <<"git_install_release", <<"acme", "widget", "latest", None, None>>, PageFail>>,
      <<"git_install_release", <<"acme", "widget", "latest", None, None>>, Page(<<>>)>> }
    \cup { <<"git_install_release", <<"acme", "widget", "latest", None, None>>,
             PageOf("widget", asset)>> : asset \in AssetNames }

InitSteps ==
    /\ \E h \in Platforms : system = h[1] /\ machine = h[2]
    /\ bin \in BinInit
    /\ pkg \in PkgInit
    /\ ext = ExtInit
    /\ \E c \in SoloCalls, resp \in Responses :
          proc = [p \in Procs |-> IF p = "a" THEN Begin(c[1], c[2], c[3], resp) ELSE Idle]
    /\ tmp = {}
    /\ bin0 = bin
    /\ last = NoLast
    /\ prev = NoLast
    /\ calls = 0
    /\ download_links = <<>>
    /\ batch = NoBatch

\* the line a process is at
NextSteps ==
    \E p \in Procs :
        \/ StepBinExists(p)
        \/ StepPossible(p)
        \/ StepReleasePage(p)
        \/ StepUrlExists(p)
        \/ StepDownloadTmp(p)
        \/ StepDownloadRead(p)
        \/ StepUrlMove(p)
        \/ StepUrlExit(p)
        \/ StepUrlChmod(p)
        \/ StepPackageCached(p)
        \/ StepExtractTmp(p)
        \/ StepExtract(p)
        \/ StepPackageMove(p)
        \/ StepPackageExit(p)
        \/ StepLocate(p)
        \/ StepPackageChmod(p)
        \/ StepLinkTest(p)
        \/ StepRemove(p)
        \/ StepSymlink(p)

SpecSteps == InitSteps /\ [][NextSteps]_vars

-----------------------------------------------------------------------------
(* Two processes at the same time                                           *)

\* the pairs of calls that run together: the same tool twice (a release, a
\* single file, a package), two binaries of one project, two projects, a
\* single file and a release
Races ==
    LET widget == <<"git_install_release", <<"acme", "widget", "latest", None, None>> >>
        gadget == <<"git_install_release", <<"acme", "widget", "v1", "gadget", None>> >>
        gizmo == <<"git_install_release", <<"acme", "gizmo", "latest", None, None>> >>
        file == <<"executable_from_url", <<"https://h.io/dl/widget", None>> >>
        package == <<"executable_from_package",
                     <<"https://h.io/dl/widgets.tar", "widget", "acme_widget", None>> >>
    IN  { <<widget, widget>>, <<file, file>>, <<package, package>>,
          <<widget, gadget>>, <<widget, gizmo>>, <<file, gizmo>> }

\* the release page a call is answered with: an archive or a single file
\* named after the project; none for a call that reads no page
RacePages(call) ==
    IF call[1] = "git_install_release"
    THEN { PageOf(call[2][2], call[2][2] \o ".tar.gz"), PageOf(call[2][2], call[2][2]) }
    ELSE { PageFail }

\* answers to a download request
RaceResponses ==
    { FetchFail, Blob("v1"),
      Archive("tar", << F("widget", FALSE) >>),
      Archive("tar", << F("README", FALSE), D("bin"), F("bin/widget", TRUE),
                        F("bin/gadget", FALSE) >>) }

InitRace ==
    /\ system = "Linux"
    /\ machine = "x86_64"
    /\ bin = <<>>
    /\ pkg = <<>>
    /\ ext = ExtInit
    /\ \E r \in Races :
        \E pa \in RacePages(r[1]), pb \in RacePages(r[2]), ra \in RaceResponses,
           rb \in RaceResponses :
            proc = [p \in Procs |-> IF p = "a" THEN Begin(r[1][1], r[1][2], pa, ra)
                                    ELSE Begin(r[2][1], r[2][2], pb, rb)]
    /\ tmp = {}
    /\ bin0 = bin
    /\ last = NoLast
    /\ prev = NoLast
    /\ calls = 0
    /\ download_links = <<>>
    /\ batch = NoBatch

SpecRace == InitRace /\ [][NextSteps]_vars

-----------------------------------------------------------------------------
(* The driver that installs one tool after another                          *)

\* the tools main installs, in its order: a script, a package, a single
\* file, a release
BatchTools ==
    << <<"git_install_script", <<"acme", "widget", "bin/gadget", "master", None>> >>,
       <<"executable_from_package",
         <<"https://h.io/dl/platform-tools.zip", "adb", "platform-tools", None>> >>,
       <<"executable_from_url", <<"https://h.io/dl/repo", None>> >>,
       <<"git_install_release", <<"acme", "gizmo", "latest", None, None>> >> >>

\* answers to the request for the release page of the last tool
BatchPages ==
    { PageFail, Page(<<>>), PageOf("gizmo", "gizmo"), PageOf("gizmo", "gizmo.tar.gz") }

\* one call of the table on the store S
ToolCall(S, tool, page, resp, xdev, front) ==
    LET a == tool[2]
    IN  CASE tool[1] = "git_install_script" ->
                GitInstallScript(S, a[1], a[2], a[3], a[4], a[5], resp, xdev)
          [] tool[1] = "executable_from_package" ->
                ExecutableFromPackage(S, a[1], a[2], a[3], a[4], resp, front)
          [] tool[1] = "executable_from_url" ->
                ExecutableFromUrl(S, a[1], a[2], resp, xdev)
          [] OTHER ->
                GitInstallRelease(S, a[1], a[2], a[3], a[4], a[5], page, resp, xdev, front)

InitBatch ==
    /\ \E h \in Platforms : system = h[1] /\ machine = h[2]
    /\ bin \in BinInit
    /\ pkg = <<>>
    /\ ext = ExtInit
    /\ batch = NoBatch
    /\ bin0 = bin
    /\ last = NoLast
    /\ prev = NoLast
    /\ calls = 0
    /\ download_links = <<>>
    /\ proc = <<>>
    /\ tmp = {}

\* main, one print(tool_installer....) line: the call made, its result
\* printed, or its exception leaving main
MainInstallsNext ==
    /\ batch.ended = ""
    /\ batch.at < Len(BatchTools)
    /\ \E page \in BatchPages, resp \in Responses, xdev \in XDev, front \in Fronts :
        \E o \in {ToolCall(Store, BatchTools[batch.at + 1], page, resp, xdev, front)} :
            /\ bin' = o.S.bin
            /\ pkg' = o.S.pkg
            /\ ext' = o.S.ext
            /\ batch' = [at |-> batch.at + 1,
                         attempted |-> Append(batch.attempted, batch.at + 1),
                         ended |-> IF o.err # "" THEN "raised" ELSE ""]
            /\ last' = [NoLast EXCEPT !.op = BatchTools[batch.at + 1][1],
                                      !.args = BatchTools[batch.at + 1][2],
                                      !.ret = o.ret, !.err = o.err, !.net = o.net]
            /\ UNCHANGED <<system, machine, prev, calls, download_links, bin0, proc, tmp>>

\* main, return 0
MainReturns ==
    /\ batch.ended = ""
    /\ batch.at = Len(BatchTools)
    /\ batch' = [batch EXCEPT !.ended = "returned"]
    /\ UNCHANGED <<system, machine, bin, pkg, ext, last, prev, calls, download_links,
                   bin0, proc, tmp>>

NextBatch == MainInstallsNext \/ MainReturns

SpecBatch == InitBatch /\ [][NextBatch]_vars

-----------------------------------------------------------------------------
(* The probing install of src/foo.py                                        *)

\* the directory tempfile.TemporaryDirectory() makes for one call
tempdir == "/tmp/t"

\* bytes.strip(): whitespace taken off both ends
IsSpace(c) == c \in {" ", "\n", "\t"}

RECURSIVE LStrip(_)
LStrip(s) ==
    IF s # "" /\ IsSpace(SubSeq(s, 1, 1)) THEN LStrip(SubSeq(s, 2, Len(s))) ELSE s

RECURSIVE RStrip(_)
RStrip(s) ==
    IF s # "" /\ IsSpace(SubSeq(s, Len(s), Len(s))) THEN RStrip(SubSeq(s, 1, Len(s) - 1)) ELSE s

Strip(s) == RStrip(LStrip(s))

\* re.search('.(bash|zsh|fish|1)', basename): any one character, then one of
\* the four words, anywhere in the name
CompletionSearch(basename) ==
    \E w \in {"bash", "zsh", "fish", "1"} :
        \E i \in 2..(Len(basename) - Len(w) + 1) : SubSeq(basename, i, i + Len(w) - 1) = w

\* the files of the extracted tree that glob(tempdir/**/binary*) yields and
\* the filter of url_install keeps, in listing order
UrlInstallFiles(tree, binary) ==
    SelectSeq(tree, LAMBDA e : /\ e.k = "f"
                               /\ StartsWith(Basename(e.path), binary)
                               /\ ~CompletionSearch(Basename(e.path)))

\* what subprocess.run((src_file, '--help'), capture_output=True) gives: a
\* return code and what was printed, or OSError when the file cannot be run
Runs ==
    { [k |-> "ran", returncode |-> rc, stdout |-> out] :
        rc \in {0, 1}, out \in {"", " \n", "usage"} }
    \cup { [k |-> "oserror", returncode |-> 0, stdout |-> ""] }

\* the outcome of url_install: the store it leaves, what it returns, the
\* error it raises, the URLs requested, the path the probe was run on (None
\* when no probe ran), and whether the file was reported as INVALID
Probed(S, ret, err, net, probed, invalid) ==
    [S |-> S, ret |-> ret, err |-> err, net |-> net, probed |-> probed, invalid |-> invalid]

\* line 177 of foo.py: the names url_install takes for archives
UrlInstallIsArchive(basename) ==
    \/ EndsWith(basename, ".zip")
    \/ Contains(basename, ".tar")
    \/ EndsWith(basename, ".tgz")

\* url_install, lines 159-204 of foo.py, install_dir being the bin directory
UrlInstall(S, download_url, binary0, rename0, resp, run, xdev) ==
    LET binary == Or(binary0, Basename(download_url))
        rename == Or(rename0, binary)
        install_path == Join(bin_dir, rename)
        basename == Basename(download_url)
        downloaded_file == Join(tempdir, basename)
        archive == UrlInstallIsArchive(basename)
        files == UrlInstallFiles(resp.tree, binary)
        src_file == IF archive THEN Join(tempdir, files[1].path) ELSE downloaded_file
        data == IF archive THEN files[1].path ELSE resp.d
    IN  IF Exists(S, install_path) THEN Probed(S, install_path, "", <<>>, None, FALSE)
        ELSE IF Download(download_url, resp) # ""
        THEN Probed(S, None, Download(download_url, resp), <<download_url>>, None, FALSE)
        ELSE IF archive /\ resp.k # Unpackager(basename)
        THEN Probed(S, None, "UnsupportedArchive", <<download_url>>, None, FALSE)
        ELSE IF archive /\ files = <<>>
        THEN Probed(S, None, "IndexError", <<download_url>>, None, FALSE)
        ELSE IF run.k = "oserror"
        THEN Probed(S, None, "OSError", <<download_url>>, src_file, FALSE)
        ELSE IF run.returncode # 0 /\ Strip(run.stdout) = ""
        THEN Probed(S, None, "", <<download_url>>, src_file, TRUE)
        ELSE IF xdev
        THEN Probed(S, None, "OSError", <<download_url>>, src_file, FALSE)
        ELSE Probed([S EXCEPT !.bin = Put(S.bin, rename, FileNode(data, TRUE))],
                    None, "", <<download_url>>, src_file, FALSE)

\* (download_url, binary, rename) of the calls: a plain file, an archive, an
\* archive installed under another name
UrlInstallCalls ==
    { <<"https://h.io/dl/widget", None, None>>,
      <<"https://h.io/dl/widget.tar.gz", "widget", None>>,
      <<"https://h.io/dl/widget.zip", "widget", "gadget">> }

\* answers to the download request
ProbeResponses ==
    { FetchFail, Blob("v1"),
      Archive("tar", << F("widget", FALSE) >>),
      Archive("tar", << F("widget.bash", FALSE), D("bin"), F("bin/widget", TRUE) >>),
      Archive("tar", << D("docs") >>),
      Archive("zip", << F("widget", FALSE) >>) }

InitProbe ==
    /\ \E h \in Platforms : system = h[1] /\ machine = h[2]
    /\ bin \in BinInit
    /\ pkg = <<>>
    /\ ext = ExtInit
    /\ last = NoLast
    /\ prev = NoLast
    /\ calls = 0
    /\ download_links = <<>>
    /\ bin0 = bin
    /\ proc = <<>>
    /\ tmp = {}
    /\ batch = NoBatch

CallUrlInstall ==
    /\ calls < MaxCalls
    /\ \E a \in UrlInstallCalls, resp \in ProbeResponses, run \in Runs, xdev \in BOOLEAN :
        \E o \in {UrlInstall(Store, a[1], a[2], a[3], resp, run, xdev)} :
            /\ last' = [op |-> "url_install", args |-> a,
                        name |-> Or(a[3], Or(a[2], Basename(a[1]))),
                        ret |-> o.ret, err |-> o.err, net |-> o.net,
                        was |-> LStat(Store, Join(bin_dir, Or(a[3], Or(a[2], Basename(a[1]))))),
                        run |-> run, probed |-> o.probed, invalid |-> o.invalid]
            /\ bin' = o.S.bin
            /\ pkg' = o.S.pkg
            /\ ext' = o.S.ext
            /\ calls' = calls + 1
            /\ prev' = last
            /\ UNCHANGED <<system, machine, download_links, bin0, proc, tmp, batch>>

NextProbe == CallUrlInstall

SpecProbe == InitProbe /\ [][NextProbe]_vars

-----------------------------------------------------------------------------
(* The selectors of src/foo.py beside __best_url__                          *)

\* GithubProject.__system_ignore_pattern__ of foo.py: the words joined into
\* one regular expression as they are, not escaped
FooIgnorePatterns(sys, mach) ==
    { ".sha256", "checksums", "license", "sha256sums", ".src." }
    \cup (CASE Lower(sys) = "darwin" ->
                 {"windows", "linux", "openbsd", "freebsd", "netbsd", ".deb", ".rpm", ".exe"}
            [] Lower(sys) = "linux" ->
                 {"windows", "darwin", "openbsd", "freebsd", "netbsd", ".exe"}
            [] Lower(sys) = "windows" ->
                 {"linux", "darwin", "openbsd", "freebsd", "netbsd", ".deb", ".rpm"}
            [] OTHER -> {})
    \cup (IF Lower(mach) = "x86_64" THEN {"arm64", "aarch64", "32-bit", "powerpc"} ELSE {})

\* the word p matches s at position i, a "." of p standing for any character
MatchesAt(p, s, i) ==
    \A k \in 1..Len(p) :
        SubSeq(p, k, k) = "." \/ SubSeq(p, k, k) = SubSeq(s, i + k - 1, i + k - 1)

\* ignore_pattern.search(filename) is not None, for the unescaped words
RegexSearch(pattern, filename) ==
    \E p \in pattern : \E i \in 1..(Len(filename) - Len(p) + 1) : MatchesAt(p, filename, i)

\* the links as the page has them, without the host
Assets(links) == [i \in 1..Len(links) |-> SubSeq(links[i], Len("https://github.com") + 1, Len(links[i]))]

\* results: the assets sorted by length, longest first, that the pattern
\* does not match in the lowercased last component
FooResults(links) ==
    With(FooIgnorePatterns(system, machine), LAMBDA pattern :
        SelectSeq(SortedByLen(Assets(links)),
                  LAMBDA x : ~RegexSearch(pattern, Lower(Basename(x)))))

\* what a selector gives: the URL or None, and the error it ends with
Target(ret, err) == [ret |-> ret, err |-> err]

\* GithubProject.get_download_target, lines 58-75 of foo.py
GetDownloadTarget(links) ==
    With(FooResults(links), LAMBDA results :
        IF Len(results) > 2 THEN Target(None, "MultipleMatches")
        ELSE IF results = <<>> THEN Target(None, "")
        ELSE Target("https://github.com" \o results[1], ""))

\* git_install_release of foo.py, lines 237-246: the URL handed to url_install
FooDownloadUrl(links) ==
    With(FooResults(links), LAMBDA results :
        IF results = <<>> THEN Target(None, "")
        ELSE Target("https://github.com" \o results[1], ""))

Targeted(op, o) ==
    /\ last.op = "none"
    /\ last' = [NoLast EXCEPT !.op = op, !.args = <<download_links>>, !.ret = o.ret,
                              !.err = o.err]
    /\ UNCHANGED <<system, machine, bin, pkg, ext, prev, calls, download_links,
                   bin0, proc, tmp, batch>>

CallGetDownloadTarget ==
    Targeted("get_download_target", GetDownloadTarget(download_links))

CallFooDownloadUrl ==
    Targeted("git_install_release (foo.py)", FooDownloadUrl(download_links))

NextVariants == CallGetDownloadTarget \/ CallFooDownloadUrl \/ CallBestUrl

SpecVariants == InitSelect /\ [][NextVariants]_vars

-----------------------------------------------------------------------------
(* Properties                                                               *)

\* the path in bin_dir the last call installs under
BinPath == Join(bin_dir, last.name)

\* the package directory and the executable name of the last package-mode call
PackagePath ==
    IF last.op = "executable_from_package"
    THEN Join(package_dir, Or(last.args[3], Basename(last.args[1])))
    ELSE Join(package_dir, last.args[1] \o "_" \o last.args[2])

ExecutableName ==
    IF last.op = "executable_from_package" THEN last.args[2]
    ELSE Or(last.args[4], last.args[2])

\* the executable the locator finds in the package directory as it is now;
\* placement changes no listing, so this is what the last call located
LocatedNow == ExecutableFromDir(Store, PackagePath, ExecutableName)

\* C1: executable_from_url called twice in a row with the same arguments,
\* the first on a store without the target and successful: one fetch in
\* total, none by the second call, which returns the same path bin_dir/rename.
C1_SecondUrlInstallFetchesNothing ==
    (/\ last.op = "executable_from_url"
     /\ prev.op = "executable_from_url"
     /\ ~prev.existed
     /\ prev.err = "")
    => /\ Len(prev.net) + Len(last.net) = 1
       /\ last.net = <<>>
       /\ last.err = ""
       /\ last.ret = prev.ret
       /\ last.ret = Join(bin_dir, Or(last.args[2], Basename(last.args[1])))

C1_Witness ==
    /\ last.op = "executable_from_url"
    /\ prev.op = "executable_from_url"
    /\ ~prev.existed
    /\ prev.err = ""
    /\ last.ret = Join(bin_dir, "gadget")

\* C2: after a git_install_release that took an archive asset and left the
\* link bin_dir/rename, the same call again requests nothing from the network
\* (no release page, no asset) and returns the same link path.
C2_SecondReleaseInstallNoNetwork ==
    (/\ last.op = "git_install_release"
     /\ prev.op = "git_install_release"
     /\ prev.err = ""
     /\ Len(prev.net) = 2
     /\ IsArchiveName(Basename(prev.net[2]))
     /\ prev.ret = Join(bin_dir, prev.name))
    => /\ last.net = <<>>
       /\ last.err = ""
       /\ last.ret = prev.ret
       /\ IsLink(Store, last.ret)
       /\ last.same

C2_Witness ==
    /\ last.op = "git_install_release"
    /\ prev.op = "git_install_release"
    /\ prev.err = ""
    /\ Len(prev.net) = 2
    /\ IsArchiveName(Basename(prev.net[2]))
    /\ prev.ret = Join(bin_dir, prev.name)
    /\ prev.was.k = "none"

BlockSet ==
    IF last.op = "__best_url__" THEN SystemIgnorePattern(system, machine)
    ELSE SystemIgnorePatternOld(system, machine)

\* no blocked literal occurs in the lowercased basename of the URL
Unblocked(url) ==
    With(Lower(Basename(url)), LAMBDA basename : \A p \in BlockSet : ~Contains(basename, p))

\* the positions of the candidates that are unblocked
UnblockedAt == {i \in 1..Len(download_links) : Unblocked(download_links[i])}

SelectorRan == last.op \in {"__best_url__", "__best_url__ (tool_installer.py)"}

TheFourOfTheExample ==
    {Basename(download_links[i]) : i \in 1..Len(download_links)}
        = {"proj-linux-amd64.tar.gz", "proj-darwin-amd64.tar.gz",
           "proj-windows-amd64.exe", "proj.sha256"}

\* C4: __best_url__ returns a candidate exactly when some candidate has no
\* blocked literal in its lowercased basename, and what it returns is such a
\* candidate; on linux/x86_64 the four candidates of the example give
\* proj-linux-amd64.tar.gz.
C4_SelectorReturnsAnAcceptedCandidate ==
    SelectorRan
    => /\ (last.ret # None) <=> (UnblockedAt # {})
       /\ (last.ret # None) => \E i \in UnblockedAt : download_links[i] = last.ret
       /\ (Lower(system) = "linux" /\ Lower(machine) = "x86_64" /\ TheFourOfTheExample)
          => Basename(last.ret) = "proj-linux-amd64.tar.gz"

C4_Witness ==
    /\ last.op = "__best_url__"
    /\ system = "Linux"
    /\ machine = "x86_64"
    /\ TheFourOfTheExample
    /\ Basename(last.ret) = "proj-linux-amd64.tar.gz"

\* the markers that name a host's own operating system and architecture
OsMarkers ==
    CASE Lower(system) = "linux" -> {"linux"}
      [] Lower(system) = "darwin" -> {"darwin", "macos"}
      [] Lower(system) = "windows" -> {"windows"}
      [] OTHER -> {}

ArchMarkers ==
    CASE Lower(machine) \in {"x86_64", "amd64"} -> {"x86_64", "amd64"}
      [] Lower(machine) \in {"arm64", "aarch64"} -> {"arm64", "aarch64"}
      [] Lower(machine) = "armv7l" -> {"armv7", "armv7l"}
      [] OTHER -> {}

SupportedHost == Lower(system) \in {"linux", "darwin", "windows"} /\ ArchMarkers # {}

\* every marker of the universal block-list that occurs in the lowercased
\* basename is one of the host's own markers or lies inside one, and the
\* basename names both the host's system and its architecture
OwnLabelled(url) ==
    LET b == Lower(Basename(url))
        own == OsMarkers \cup ArchMarkers
    IN  /\ \E m \in OsMarkers : Contains(b, m)
        /\ \E m \in ArchMarkers : Contains(b, m)
        /\ \A p \in ignore_patterns :
               Contains(b, p) => \E m \in own : Contains(m, p)

\* C5: on every supported host the block-set holds no marker of the host's
\* own operating system or architecture, so a candidate labelled only with
\* the host's own system and architecture is not rejected: a list that holds
\* one has a match.
C5_OwnPlatformNeverBlocked ==
    (SupportedHost /\ SelectorRan)
    => /\ (OsMarkers \cup ArchMarkers) \cap BlockSet = {}
       /\ (\E i \in 1..Len(download_links) : OwnLabelled(download_links[i]))
          => last.ret # None

\* C6: the URL __best_url__ returns has a basename at least as long as the
\* basename of every accepted candidate, whatever directories the URLs name.
C6_LongestBasenameWins ==
    (last.op = "__best_url__" /\ last.ret # None)
    => \A i \in UnblockedAt :
           Len(Basename(last.ret)) >= Len(Basename(download_links[i]))

C8_RegularFileIsNotClobbered ==
    (last.op = "executable_from_package" /\ last.was.k = "f")
    => /\ LStat(Store, BinPath) = last.was
       /\ last.err # "FileExistsError"
       /\ (LocatedNow # None) <=> (last.err = "")
       /\ last.cached => last.err = ""
       /\ (last.err = "")
          => /\ last.ret = LocatedNow
             /\ last.ret # BinPath
             /\ StartsWith(last.ret, PackagePath \o "/")
             /\ IsFile(Store, last.ret)

C8_Witness ==
    /\ last.op = "executable_from_package"
    /\ last.was = FileNode("manual", FALSE)
    /\ last.err = ""
    /\ last.net # <<>>

\* C9: executable_from_package that locates its executable while
\* bin_dir/<rename> is a symbolic link to anything else (a file, a directory,
\* a missing path) replaces the link by one to the executable and returns the
\* link path without error.
C9_StaleLinkIsReplaced ==
    (/\ last.op = "executable_from_package"
     /\ last.was.k = "l"
     /\ LocatedNow # None
     /\ last.was.to # LocatedNow)
    => /\ last.err = ""
       /\ last.ret = BinPath
       /\ LStat(Store, BinPath) = LinkNode(LocatedNow)

\* the last call was a package-mode install: executable_from_package, or a
\* git_install_release without a bin entry that used the package cache or
\* fetched an archive asset
PackageMode ==
    \/ last.op = "executable_from_package"
    \/ /\ last.op = "git_install_release"
       /\ ~last.existed
       /\ \/ last.cached
          \/ Len(last.net) = 2 /\ IsArchiveName(Basename(last.net[2]))

\* C10: a package-mode install that returns, with no regular file under the
\* link name, leaves the located executable with its executable bit set and
\* bin_dir/<rename> a symbolic link to it, fetched in this call or cached.
C10_PackageInstallLinksExecutable ==
    (PackageMode /\ last.err = "" /\ last.was.k # "f")
    => /\ LocatedNow # None
       /\ IsExecutable(Store, LocatedNow)
       /\ IsLink(Store, BinPath)
       /\ RealPath(Store, BinPath) = LocatedNow

-----------------------------------------------------------------------------
(* The locator                                                              *)

LocatorRan == last.op = "__executable_from_dir__"

\* the plain files of the directory the locator was given, in listing order
ListedFiles ==
    IF LocatorRan /\ last.args[1] = Join(package_dir, "acme_widget")
    THEN SelectSeq(pkg["acme_widget"], LAMBDA e : e.k = "f")
    ELSE <<>>

\* a name that marks a shell-completion script or a man page
CompletionOrManPage(name) ==
    \/ EndsWith(name, ".bash")
    \/ EndsWith(name, ".zsh")
    \/ EndsWith(name, ".fish")
    \/ EndsWith(name, ".1")

ExactFiles == SelectSeq(ListedFiles, LAMBDA e : Basename(e.path) = last.args[2])
EligibleFiles == SelectSeq(ListedFiles, LAMBDA e : ~CompletionOrManPage(Basename(e.path)))

\* C11: the locator returns a file named as expected when the tree has one;
\* otherwise the first plain file that is neither a completion script
\* (.bash, .zsh, .fish) nor a man page (.1); otherwise "not found", so a tree
\* of completion scripts and man pages alone gives "not found".
C11_LocatorSkipsCompletionsAndManPages ==
    LocatorRan
    => IF ExactFiles # <<>> THEN Basename(last.ret) = last.args[2]
       ELSE IF EligibleFiles # <<>>
       THEN last.ret = Join(last.args[1], Head(EligibleFiles).path)
       ELSE last.ret = None

-----------------------------------------------------------------------------
(* Failures                                                                 *)

\* C12: an install operation that starts with nothing under the tool's name
\* in bin_dir and ends in a failure leaves nothing under that name.
C12_FailureLeavesNoBinEntry ==
    (last.op # "none" /\ last.was.k = "none" /\ last.err # "")
    => LStat(Store, BinPath).k = "none"

C12_Witness ==
    /\ last.op = "executable_from_package"
    /\ last.was.k = "none"
    /\ last.err = "ExecutableNotFound"
    /\ PackagePath \in {Join(package_dir, n) : n \in DOMAIN pkg}
    /\ LStat(Store, BinPath).k = "none"

-----------------------------------------------------------------------------
(* Temporary directories                                                    *)

\* the process has run an operation to its end
Ended(p) == proc[p].op # "idle" /\ proc[p].pc = "done"

\* C13: once an operation has ended, by a return or by any error, no
\* temporary directory it created exists: neither the download directory nor
\* the extraction directory.
C13_TemporaryDirectoriesAreGone ==
    \A p \in Procs : Ended(p) => ~\E d \in tmp : d[1] = p

\* an operation that failed in the move of the extracted tree, with both
\* directories in existence, and left none
C13_Witness ==
    /\ Ended("a")
    /\ proc["a"].err = "shutil.Error"
    /\ proc["a"].downloaded
    /\ proc["a"].opener # ""
    /\ tmp = {}

-----------------------------------------------------------------------------
(* Archive classification                                                   *)

\* the release install of process p has selected an asset and delegated
Delegated(p) == proc[p].op = "git_install_release" /\ proc[p].mode # ""

\* the URL of the one asset of the page the process was given
OnlyAsset(p) == "https://github.com" \o proc[p].page.hrefs[1]

\* C14: git_install_release delegates to package mode exactly when the
\* basename of the selected asset ends in .zip, contains .tar, or ends in
\* .tgz or .tbz, as spelled; otherwise to single-file mode, with the resolved
\* download URL; package mode opens a name ending in .zip as a zip archive
\* and any other name as a tar archive.
C14_ArchiveNamesGoToPackageMode ==
    \A p \in Procs :
        /\ Delegated(p)
           => /\ proc[p].url = OnlyAsset(p)
              /\ proc[p].mode = "package"
                 <=> LET b == Basename(OnlyAsset(p))
                         n == Len(b)
                     IN  \/ (n >= 4 /\ SubSeq(b, n - 3, n) = ".zip")
                         \/ (\E i \in 1..n : i + 3 <= n /\ SubSeq(b, i, i + 3) = ".tar")
                         \/ (n >= 4 /\ SubSeq(b, n - 3, n) = ".tgz")
                         \/ (n >= 4 /\ SubSeq(b, n - 3, n) = ".tbz")
              /\ proc[p].mode \in {"package", "file"}
              /\ (proc[p].mode = "file" /\ proc[p].downloaded)
                 => proc[p].net[Len(proc[p].net)] = OnlyAsset(p)
        /\ proc[p].opener # ""
           => /\ proc[p].mode = "package"
              /\ proc[p].opener = "zip" <=> EndsWith(Basename(proc[p].url), ".zip")
              /\ proc[p].opener \in {"zip", "tar"}

\* a .tbz asset extracted by the tar opener, and the install ended
C14_Witness ==
    /\ Delegated("a")
    /\ Basename(proc["a"].url) = "widget.tbz"
    /\ proc["a"].mode = "package"
    /\ proc["a"].opener = "tar"
    /\ Ended("a")
    /\ proc["a"].err = ""

-----------------------------------------------------------------------------
(* The batch                                                                *)

\* C15: in a batch, a tool whose install fails aborts only itself: when the
\* driver has ended, every tool of the batch has been attempted.
C15_BatchContinuesAfterFailure ==
    batch.ended # "" => Len(batch.attempted) = Len(BatchTools)

-----------------------------------------------------------------------------
(* C16, C17: two operations at the same time                                *)

\* the store every race starts from
EmptyStore == [bin |-> <<>>, pkg |-> <<>>, ext |-> ExtInit]

\* the outcomes of the operation of process p run alone, as one step, on
\* store S
Alone(S, p) ==
    {ToolCall(S, <<proc[p].op, proc[p].args>>, proc[p].page, proc[p].resp, FALSE, front) :
        front \in BOOLEAN}

SameTool == proc["a"].op = proc["b"].op /\ proc["a"].args = proc["b"].args

\* a bin entry, once present, stays present from step to step
BinEntriesStay == \A n \in DOMAIN bin : n \in DOMAIN bin'

\* an error of process p that the operation alone, on the empty store, would
\* also end with
OwnFailure(p) == \E o \in Alone(EmptyStore, p) : o.err = proc[p].err

\* C16: when two processes install the same tool at the same time, no bin
\* entry that exists is ever missing again (placement is one atomic step),
\* and a process that ends with an error ends with an error of its own: the
\* other process having placed the target first makes nobody fail.
C16_SameToolPlacementIsAtomic ==
    /\ [](SameTool => \A p \in Procs : (Ended(p) /\ proc[p].err # "") => OwnFailure(p))
    /\ [][SameTool => BinEntriesStay]_vars

\* what both processes ended with, and the store they left
Final == <<Store, proc["a"].ret, proc["a"].err, proc["b"].ret, proc["b"].err>>

\* the outcomes of p's operation alone on the empty store followed by q's
\* operation alone, in the order of Final
Sequential(p, q) ==
    UNION {{IF p = "a" THEN <<o2.S, o1.ret, o1.err, o2.ret, o2.err>>
                       ELSE <<o2.S, o2.ret, o2.err, o1.ret, o1.err>> :
                o2 \in Alone(o1.S, q)} : o1 \in Alone(EmptyStore, p)}

\* C17: two processes that install different tools at the same time,
\* two binaries of one project included, end as if one had run after the
\* other: same store, same results.
C17_DifferentToolsAreSequential ==
    (Ended("a") /\ Ended("b") /\ proc["a"].rename # proc["b"].rename)
    => Final \in Sequential("a", "b") \cup Sequential("b", "a")

-----------------------------------------------------------------------------
(* C18: what the bin directory holds                                        *)

\* `path` is a file of a package under package_dir
FileInPackageDir(path) ==
    \E pn \in DOMAIN pkg :
        EntryAt(Store, pn, path) # 0 /\ pkg[pn][EntryAt(Store, pn, path)].k = "f"

\* C18: after any sequence of completed installs that started from an empty
\* store, every entry of bin_dir is a regular file with the executable bit,
\* or a symbolic link whose target is an existing file inside package_dir.
C18_BinEntriesAreWellFormed ==
    bin0 = <<>>
    => \A n \in DOMAIN bin :
         \/ bin[n].k = "f" /\ bin[n].x
         \/ bin[n].k = "l" /\ FileInPackageDir(bin[n].to)

\* two installs from the empty store, one of each kind, have left a regular
\* file and a link side by side
C18_Witness ==
    /\ bin0 = <<>>
    /\ calls = 2
    /\ \E n \in DOMAIN bin : bin[n].k = "f" /\ bin[n].x
    /\ \E n \in DOMAIN bin : bin[n].k = "l" /\ FileInPackageDir(bin[n].to)

-----------------------------------------------------------------------------
(* C19: what the package directory holds after an extraction                *)

\* the package name of the last package-mode call
PackageName ==
    IF last.op = "executable_from_package"
    THEN Or(last.args[3], Basename(last.args[1]))
    ELSE last.args[1] \o "_" \o last.args[2]

\* the last call ran package mode, downloaded the archive, opened it and
\* moved the tree: it ended well or failed after line 108
FetchedAndExtracted ==
    /\ \/ last.op = "executable_from_package" /\ Len(last.net) = 1
       \/ /\ last.op = "git_install_release"
          /\ Len(last.net) = 2
          /\ IsArchiveName(Basename(last.net[2]))
    /\ last.err \in {"", "ExecutableNotFound", "FileExistsError"}

\* the kinds and paths of a listing, the modes left aside
Listing(tree) == [i \in 1..Len(tree) |-> <<tree[i].k, tree[i].path>>]

\* C19: after a package-mode install that fetched and extracted an archive,
\* package_dir/<package_name> is the root of the extracted tree, its
\* top-level entries the archive's own; also when the package path existed
\* before and held no executable of the name.
C19_PackageDirIsTheExtractedTree ==
    FetchedAndExtracted
    => /\ PackageName \in DOMAIN pkg
       /\ Listing(pkg[PackageName]) \in {Listing(t) : t \in Trees}

-----------------------------------------------------------------------------
(* C20: the order of the steps of one operation                             *)

\* the place of a part in the order of an operation; moving the extracted
\* tree into package_dir belongs to the extraction
Rank(stage) ==
    CASE stage = "check" -> 1
      [] stage = "select" -> 2
      [] stage = "fetch" -> 3
      [] stage \in {"extract", "persist"} -> 4
      [] stage = "locate" -> 5
      [] OTHER -> 6

\* the process has begun to download
Fetching(q) == StageOf(q.pc) = "fetch" \/ \E i \in 1..Len(q.stages) : q.stages[i] = "fetch"

\* the parts came in order: an idempotency check first, every later part
\* after all parts of a lower rank, the one exception being the existence
\* test the delegate makes once the asset has been selected
InOrder(stages) ==
    /\ stages # <<>> => stages[1] = "check"
    /\ \A i, j \in 1..Len(stages) :
        i < j => \/ Rank(stages[i]) <= Rank(stages[j])
                 \/ stages[j] = "check" /\ \A k \in 1..j : stages[k] \in {"check", "select"}

\* C20: within one operation nothing is written into bin_dir or package_dir
\* before the download is complete, so a fetch that fails leaves no file; and
\* the steps come in the order idempotency check, asset selection, fetch,
\* extraction, executable location, placement.
C20_NothingWrittenBeforeDownload ==
    \A p \in Procs :
        /\ (Fetching(proc[p]) /\ ~proc[p].downloaded) => ~proc[p].wrote
        /\ InOrder(proc[p].stages)

\* a release install that went through every step and changed the store
\* only after its download
C20_Witness ==
    /\ Ended("a")
    /\ proc["a"].stages = <<"check", "select", "check", "fetch", "extract", "persist",
                            "locate", "place">>
    /\ proc["a"].downloaded
    /\ proc["a"].wrote
    /\ proc["a"].err = ""

-----------------------------------------------------------------------------
(* C21: the probe of url_install                                            *)

\* C21: when url_install probes a file, the probe runs on the file placed at
\* the install path; it fails exactly when the run exits non-zero and prints
\* nothing on standard output; and after a failed probe the file, reported
\* as invalid, is still at the install path.
C21_ProbeRunsAfterPlacementAndKeepsTheFile ==
    (last.op = "url_install" /\ last.probed # None)
    => /\ last.probed = BinPath
       /\ last.invalid <=> /\ last.run.k = "ran"
                           /\ last.run.returncode # 0
                           /\ Strip(last.run.stdout) = ""
       /\ last.invalid => IsFile(Store, BinPath)

-----------------------------------------------------------------------------
(* C22: several surviving candidates                                        *)

\* the candidates the filter of foo.py lets through
FooSurvivors ==
    {i \in 1..Len(download_links) :
        ~RegexSearch(FooIgnorePatterns(system, machine), Lower(Basename(download_links[i])))}

\* the survivors with a name as long as any survivor's
LongestNamed(survivors) ==
    {download_links[i] : i \in {j \in survivors :
        \A k \in survivors : Len(Basename(download_links[j])) >= Len(Basename(download_links[k]))}}

\* the candidates are assets of one release: they differ in the name only
OneRelease ==
    \A i, j \in 1..Len(download_links) :
        SubSeq(download_links[i], 1, LastSlash(download_links[i]))
            = SubSeq(download_links[j], 1, LastSlash(download_links[j]))

\* C22: get_download_target ends with the "multiple matches" error whenever
\* more than one candidate survives the filter, and returns the single
\* survivor otherwise; __best_url__ and git_install_release of foo.py never
\* end with that error and return, of the survivors of one release, one with
\* the longest name.
C22_OnlyTheHistoricalVariantAborts ==
    /\ last.op = "get_download_target"
       => /\ Cardinality(FooSurvivors) > 1 <=> last.err = "MultipleMatches"
          /\ Cardinality(FooSurvivors) = 1
             => \E i \in FooSurvivors : last.ret = download_links[i]
    /\ last.op = "git_install_release (foo.py)"
       => /\ last.err = ""
          /\ (OneRelease /\ FooSurvivors # {}) => last.ret \in LongestNamed(FooSurvivors)
    /\ last.op = "__best_url__"
       => /\ last.err = ""
          /\ (OneRelease /\ UnblockedAt # {}) => last.ret \in LongestNamed(UnblockedAt)

-----------------------------------------------------------------------------
(* C23: what a successful install returns                                   *)

InstallReturned ==
    /\ last.op \in {"executable_from_url", "executable_from_package",
                    "git_install_script", "git_install_release"}
    /\ last.err = ""

\* the package directory of the last release install holds a file named as
\* the binary asked for: the locator needs no fallback
NoFallbackNeeded ==
    /\ last.op = "git_install_release"
    /\ PackageName \in DOMAIN pkg
    /\ \E i \in 1..Len(pkg[PackageName]) :
          pkg[PackageName][i].k = "f" /\ Basename(pkg[PackageName][i].path) = ExecutableName

\* C23: the path a successful install returns, on every return branch, the
\* early returns included, names an existing file with the executable bit;
\* and for a release install of a binary the package holds under its own
\* name, it is that file.
C23_ReturnedPathIsAnExecutableFile ==
    InstallReturned
    => /\ IsExecutable(Store, last.ret)
       /\ NoFallbackNeeded => Basename(RealPath(Store, last.ret)) = ExecutableName

====
